---- MODULE Spec2Model ----
(***************************************************************************)
(* Model of parse_dspace_edit_logs.py: the incremental log parser that     *)
(* extracts "update_item" events from DSpace log files and stores them,    *)
(* together with one read cursor per (parser name, file path), in          *)
(* PostgreSQL.                                                             *)
(*                                                                         *)
(* Abstractions.                                                           *)
(*  - In the model of main a file is a sequence of bytes over             *)
(*    {H, B, T, U, X, NL}.  H stands for the part of an audit record up to *)
(*    and including the ItemServiceImpl marker, B for such a part whose    *)
(*    timestamp has the digits of no calendar date ("2024-13-01 ..."), T   *)
(*    for "<user>::update_item:item_id=<uuid>", U for the same with 36     *)
(*    hexadecimal digits and hyphens that are not the text of a uuid, X    *)
(*    for a byte that is not valid UTF-8, NL for the line terminator.      *)
(*    UPDATE_ITEM_RE is anchored at the start only, so a stripped line     *)
(*    matches exactly when it starts with H or B followed by T or U.       *)
(*  - The regular expression itself is modelled character by character    *)
(*    (section "the line matcher on text") and applied to lines put        *)
(*    together from the parts listed there.                                *)
(*  - sha1 is taken to be collision free: a line_hash is the tuple the     *)
(*    formatted string "{inode}:{line_start}:{line}" is built from.        *)
(*  - One PostgreSQL connection is (durable tables, pending writes of the  *)
(*    open transaction); commit applies the pending writes, rollback and   *)
(*    a killed process drop them.                                          *)
(*  - Steps of the environment (appends, truncation, rotation) are taken   *)
(*    between invocations and between the os.stat and the open of a file.  *)
(*    The other steps of main do not look at the file system, so a change  *)
(*    at any other moment has the effect of one at the next such point.    *)
(*  - Two connections follow READ COMMITTED: a select sees the durable   *)
(*    tables, an insert or upsert of a key that the other open             *)
(*    transaction has written waits until that transaction ends.           *)
(***************************************************************************)
EXTENDS Integers, Sequences, FiniteSets, TLC

\* ------------------------------------------------------------ bounds ----
MaxSize == 4        \* largest file size, in bytes
MaxFsOps == 2       \* number of file system changes in one behaviour
MaxScanLen == 7     \* largest size of a file read by one scan of many lines

Paths == {1, 2}     \* path names "a.log", "b.log"; the order of the
                    \* integers is the lexicographic order of the names
GzPaths == {3}      \* "c.log.gz"
AllPaths == Paths \cup GzPaths     \* what the pattern of --log-glob covers
Inodes == {11, 12, 13}
ParserNames == {"p1", "p2"}
Runs == {"r1", "r2"}
SeqRuns == {"r1"}   \* the scheduler starts one invocation at a time

H == "H"
B == "B"
T == "T"
U == "U"
X == "X"
NL == "NL"
FFFD == "FFFD"      \* U+FFFD, what an undecodable byte is replaced with
Chunks == { <<H, T, NL>>, <<H>>, <<T, NL>> }   \* what a writer appends at once
LineChunks == { <<H, T, NL>>, <<B, T, NL>>, <<H, U, NL>>, <<X, NL>> }

NoRow == [absent |-> TRUE]
NoMatch == <<>>
ValueError == <<"ValueError">>

VARIABLES
    fs,             \* [AllPaths -> [kind, inode, data]]: the log directory
    fsOps,          \* number of file system changes so far
    schema,         \* the two tables and the indexes exist
    events,         \* dashboard_item_edit_events, committed rows in order
    parser_state,   \* dashboard_log_parser_state: [parser, path] -> row
    pc,             \* position of each invocation of main()
    args,           \* parsed command line of each invocation
    files,          \* main: files
    idx,            \* main: position of the for loop in files
    loc,            \* main: locals of the loop body
    totals,         \* main: total_lines, total_parsed, total_inserted
    tx,             \* pending writes of the open transaction
    out,            \* lines printed by the invocation
    exit,           \* exit status of the invocation
    snap,           \* history: the durable store when the invocation began
    stopAt,         \* history: where an invocation was cut short
    db_url,         \* local.cfg has a db.url that _parse_db_url accepts
    line_in,        \* the text handed to the line matcher
    parse_out       \* what the line matcher made of line_in

vars == <<fs, fsOps, schema, events, parser_state, pc, args, files, idx, loc,
          totals, tx, out, exit, snap, stopAt, db_url, line_in, parse_out>>

dbVars == <<schema, events, parser_state>>
fsVars == <<fs, fsOps>>
cfgVars == <<db_url>>
reVars == <<line_in, parse_out>>
envVars == <<fsVars, cfgVars, reVars>>     \* what main leaves as it is

\* ----------------------------------------------------- pure functions ---
SpaceCh == {" ", NL}
IsSpace(b) == b \in SpaceCh

RECURSIVE LStrip(_)
LStrip(s) == IF s # <<>> /\ IsSpace(Head(s)) THEN LStrip(Tail(s)) ELSE s

RECURSIVE RStrip(_)
RStrip(s) ==
    IF s # <<>> /\ IsSpace(s[Len(s)]) THEN RStrip(SubSeq(s, 1, Len(s) - 1))
    ELSE s

Strip(s) == RStrip(LStrip(s))

\* raw_line.decode("utf-8", errors="replace"): X is replaced, the other
\* bytes of the model are valid one-byte sequences.
Decode(raw) == [i \in 1..Len(raw) |-> IF raw[i] = X THEN FFFD ELSE raw[i]]

\* UPDATE_ITEM_RE.match(s): anchored at the start, not at the end.
ReMatch(s) == Len(s) >= 2 /\ s[1] \in {H, B} /\ s[2] \in {T, U}

\* datetime.strptime raises ValueError on the digits of no calendar date
_parse_line(line) ==
    LET s == Strip(line)
    IN  IF ~ReMatch(s) THEN NoMatch
        ELSE IF s[1] = B THEN ValueError
        ELSE <<"ts", "user", IF s[2] = T THEN "item" ELSE "hex36">>

\* hashlib.sha1(f"{inode}:{line_start}:{line}")
LineHash(inode, line_start, line) == <<inode, line_start, line>>

\* handle.readline() at position pos (0-based): up to and including the
\* next NL, or up to end of file; empty at or past end of file.
RECURSIVE ReadLineFrom(_, _)
ReadLineFrom(data, pos) ==
    IF pos >= Len(data) THEN <<>>
    ELSE IF data[pos + 1] = NL THEN <<NL>>
    ELSE <<data[pos + 1]>> \o ReadLineFrom(data, pos + 1)

RECURSIVE ScanFrom(_, _, _, _, _, _)
ScanFrom(data, file_path, inode, pos, rows, lines_read) ==
    LET raw_line == ReadLineFrom(data, pos)
        line == Decode(raw_line)
        parsed == _parse_line(line)
        row == [event |-> parsed, source_file |-> file_path,
                source_offset |-> pos,
                line_hash |-> LineHash(inode, pos, line)]
    IN  IF raw_line = <<>>
        THEN [rows |-> rows, lines_read |-> lines_read, end_offset |-> pos,
              raised |-> FALSE]
        ELSE IF parsed = ValueError
        THEN [rows |-> rows, lines_read |-> lines_read + 1,
              end_offset |-> pos, raised |-> TRUE]
        ELSE ScanFrom(data, file_path, inode, pos + Len(raw_line),
                      IF parsed = NoMatch THEN rows ELSE Append(rows, row),
                      lines_read + 1)

\* Variant: end_offset is the number of bytes this scan consumed, not the
\* position in the file.
CollectRelativeEnd(data, file_path, inode, start_offset) ==
    LET res == ScanFrom(data, file_path, inode, start_offset, <<>>, 0)
    IN  [res EXCEPT !.end_offset = res.end_offset - start_offset]

\* _collect_events_for_file, on the content the file has when it is opened
_collect_events_for_file(data, file_path, inode, start_offset) ==
    ScanFrom(data, file_path, inode, start_offset, <<>>, 0)

\* Variant: the stored inode is not compared.
StartOffsetAnyInode(state, inode, file_size) ==
    IF state # NoRow /\ 0 <= state.offset /\ state.offset <= file_size
    THEN state.offset ELSE 0

\* Variant: the stored offset is not compared with the size.
StartOffsetAnySize(state, inode, file_size) ==
    IF state # NoRow /\ state.inode = inode /\ 0 <= state.offset
    THEN state.offset ELSE 0

\* main, lines 242-246
StartOffset(state, inode, file_size) ==
    IF state # NoRow /\ state.inode = inode
       /\ 0 <= state.offset /\ state.offset <= file_size
    THEN state.offset ELSE 0

\* _iter_files: sorted(glob), regular files only, no ".gz"
RECURSIVE SortedSeq(_)
SortedSeq(S) ==
    IF S = {} THEN <<>>
    ELSE LET m == CHOOSE x \in S : \A y \in S : x <= y
         IN  <<m>> \o SortedSeq(S \ {m})

\* glob.glob: the names of the pattern that exist
Glob(dir) == {p \in DOMAIN dir : dir[p].kind # "none"}

\* Variant: the ".gz" names are not skipped.
IterFilesWithGz(dir) == SortedSeq({p \in Glob(dir) : dir[p].kind = "file"})

_iter_files(dir) ==
    SortedSeq({p \in Glob(dir) : dir[p].kind = "file" /\ p \notin GzPaths})

Hashes(table) == {table[i].line_hash : i \in 1..Len(table)}

\* _insert_events: one "insert ... on conflict (line_hash) do nothing" per
\* row; table is what the statement sees (committed rows and the rows this
\* transaction has already written).
\* "%s::uuid": PostgreSQL raises on a text that is not the text of a uuid
IsUuid(item) == item = "item"

RECURSIVE InsertRows(_, _, _)
InsertRows(table, rows, inserted) ==
    IF rows = <<>>
    THEN [table |-> table, inserted |-> inserted, raised |-> FALSE]
    ELSE IF ~IsUuid(Head(rows).event[3])
         THEN [table |-> table, inserted |-> inserted, raised |-> TRUE]
    ELSE IF Head(rows).line_hash \in Hashes(table)
         THEN InsertRows(table, Tail(rows), inserted)
         ELSE InsertRows(Append(table, Head(rows)), Tail(rows), inserted + 1)

\* Variant: plain insert, no "on conflict" and no unique constraint.
InsertAlways(table, rows) ==
    [table |-> table \o rows, inserted |-> Len(rows), raised |-> FALSE]

_insert_events(table, rows) == InsertRows(table, rows, 0)

\* _save_state: the row the upsert statement writes
_save_state(parser_name, file_path, inode, offset) ==
    [key |-> <<parser_name, file_path>>,
     row |-> [inode |-> inode, offset |-> offset]]

\* Variant: insert ... on conflict (parser_name, file_path) do nothing.
UpsertKeep(state_table, w) ==
    IF w = NoRow \/ state_table[w.key] # NoRow THEN state_table
    ELSE [state_table EXCEPT ![w.key] = w.row]

\* insert ... on conflict (parser_name, file_path) do update set ...
Upsert(state_table, w) ==
    IF w = NoRow THEN state_table
    ELSE [state_table EXCEPT ![w.key] = w.row]

\* _load_state
_load_state(state_table, parser_name, file_path) ==
    state_table[<<parser_name, file_path>>]

\* -------------------------------------- the line matcher on text -------
\* A text is a sequence of characters, each a string of length one; NL is
\* the line terminator.
DigitCh ==
    {"0", "1", "2", "3", "4", "5", "6", "7", "8", "9"}
LowerCh ==
    {"a", "b", "c", "d", "e", "f", "g", "h", "i", "j", "k", "l", "m", "n",
     "o", "p", "q", "r", "s", "t", "u", "v", "w", "x", "y", "z"}
UpperCh ==
    {"A", "B", "C", "D", "E", "F", "G", "H", "I", "J", "K", "L", "M", "N",
     "O", "P", "Q", "R", "S", "T", "U", "V", "W", "X", "Y", "Z"}
PunctCh == {"-", ":", ",", ".", "@", "=", "_"}
Alphabet == DigitCh \cup LowerCh \cup UpperCh \cup PunctCh \cup SpaceCh

\* the classes of the pattern: \d, \w, \S, [^:], [A-Fa-f0-9\-]
WordCh == DigitCh \cup LowerCh \cup UpperCh \cup {"_"}
NonSpaceCh == Alphabet \ SpaceCh
NonColonCh == Alphabet \ {":"}
HexDashCh ==
    DigitCh \cup {"a", "b", "c", "d", "e", "f"}
            \cup {"A", "B", "C", "D", "E", "F"} \cup {"-"}

\* "org.dspace.content.ItemServiceImpl"
Marker ==
    <<"o", "r", "g", ".", "d", "s", "p", "a", "c", "e", ".", "c", "o",
      "n", "t", "e", "n", "t", ".", "I", "t", "e", "m", "S", "e", "r",
      "v", "i", "c", "e", "I", "m", "p", "l">>
\* "::update_item:item_id="
Verb ==
    <<":", ":", "u", "p", "d", "a", "t", "e", "_", "i", "t", "e", "m",
      ":", "i", "t", "e", "m", "_", "i", "d", "=">>

\* A position is the index of the next character; Fail is no position.
Fail == 0

\* the longest run of characters of class C from position i
RECURSIVE Many(_, _, _)
Many(s, i, C) ==
    IF i <= Len(s) /\ s[i] \in C THEN Many(s, i + 1, C) ELSE i

\* C+ .  Wherever the pattern repeats a class, what follows excludes the
\* class, so the longest run is the only one the match can go on from.
Plus(s, i, C) ==
    IF i = Fail THEN Fail
    ELSE LET j == Many(s, i, C) IN IF j > i THEN j ELSE Fail

\* C{n}
Times(s, i, C, n) ==
    IF i # Fail /\ i + n - 1 <= Len(s) /\ \A k \in i..(i + n - 1) : s[k] \in C
    THEN i + n ELSE Fail

\* a literal text
Lit(s, i, w) ==
    IF i # Fail /\ i + Len(w) - 1 <= Len(s)
       /\ SubSeq(s, i, i + Len(w) - 1) = w
    THEN i + Len(w) ELSE Fail

\* ^\d{4}-\d{2}-\d{2} \d{2}:\d{2}:\d{2}
TsShape(s) ==
    LET y == Times(s, 1, DigitCh, 4)
        mo == Times(s, Lit(s, y, <<"-">>), DigitCh, 2)
        d == Times(s, Lit(s, mo, <<"-">>), DigitCh, 2)
        h == Times(s, Lit(s, d, <<" ">>), DigitCh, 2)
        mi == Times(s, Lit(s, h, <<":">>), DigitCh, 2)
    IN  Times(s, Lit(s, mi, <<":">>), DigitCh, 2)

\* Variant: (?:,\d+)?
FractionOptional(s, i) ==
    IF Lit(s, i, <<",">>) = Fail THEN i
    ELSE Plus(s, Lit(s, i, <<",">>), DigitCh)

\* ,\d+
Fraction(s, i) == Plus(s, Lit(s, i, <<",">>), DigitCh)

\* "no match" of the pattern and of _parse_line (None), and the ValueError
\* _parse_line lets through
NoGroups == [matched |-> FALSE]
Raised == [raised |-> "ValueError"]

\* UPDATE_ITEM_RE.match(s): the groups ts, user, item.  "\s+" before the
\* group user takes one white space at least; further white space goes to
\* "\s+" or to the group, which _parse_line strips.
UPDATE_ITEM_RE(s) ==
    LET ts == TsShape(s)
        frac == Fraction(s, ts)
        level == Plus(s, Plus(s, frac, SpaceCh), WordCh)
        tok1 == Plus(s, Plus(s, level, SpaceCh), NonSpaceCh)
        tok2 == Plus(s, Plus(s, tok1, SpaceCh), NonSpaceCh)
        logger == Lit(s, Plus(s, tok2, SpaceCh), Marker)
        at == Lit(s, Plus(s, logger, SpaceCh), <<"@">>)
        u0 == Times(s, at, SpaceCh, 1)
        u1 == Plus(s, u0, NonColonCh)
        i0 == Lit(s, u1, Verb)
        i1 == Times(s, i0, HexDashCh, 36)
    IN  IF i1 = Fail THEN NoGroups
        ELSE [matched |-> TRUE, ts |-> SubSeq(s, 1, ts - 1),
              user |-> SubSeq(s, u0, u1 - 1), item |-> SubSeq(s, i0, i1 - 1)]

DigitVal(c) ==
    CHOOSE n \in 0..9 :
        <<"0", "1", "2", "3", "4", "5", "6", "7", "8", "9">>[n + 1] = c

Num2(s, k) == 10 * DigitVal(s[k]) + DigitVal(s[k + 1])

DaysIn(year, month) ==
    IF month \in {4, 6, 9, 11} THEN 30
    ELSE IF month # 2 THEN 31
    ELSE IF year % 4 = 0 /\ (year % 100 # 0 \/ year % 400 = 0) THEN 29
    ELSE 28

\* Variant: the format is "%Y-%d-%m %H:%M:%S".
StrptimeDayFirst(ts) ==
    LET year == 100 * Num2(ts, 1) + Num2(ts, 3)
        month == Num2(ts, 9)
        day == Num2(ts, 6)
    IN  IF /\ year >= 1 /\ month \in 1..12 /\ day \in 1..DaysIn(year, month)
           /\ Num2(ts, 12) <= 23 /\ Num2(ts, 15) <= 59 /\ Num2(ts, 18) <= 59
        THEN [year |-> year, month |-> month, day |-> day,
              hour |-> Num2(ts, 12), minute |-> Num2(ts, 15),
              second |-> Num2(ts, 18)]
        ELSE Raised

\* datetime.strptime(ts, "%Y-%m-%d %H:%M:%S") on text of the shape of the
\* group ts: a datetime, or ValueError when the digits are no calendar
\* date and time of day
strptime(ts) ==
    LET year == 100 * Num2(ts, 1) + Num2(ts, 3)
        month == Num2(ts, 6)
        day == Num2(ts, 9)
    IN  IF /\ year >= 1 /\ month \in 1..12 /\ day \in 1..DaysIn(year, month)
           /\ Num2(ts, 12) <= 23 /\ Num2(ts, 15) <= 59 /\ Num2(ts, 18) <= 59
        THEN [year |-> year, month |-> month, day |-> day,
              hour |-> Num2(ts, 12), minute |-> Num2(ts, 15),
              second |-> Num2(ts, 18)]
        ELSE Raised

\* _parse_line on text
ParseLineText(line) ==
    LET m == UPDATE_ITEM_RE(Strip(line))
    IN  IF ~m.matched THEN NoGroups
        ELSE LET ts == strptime(m.ts)
             IN  IF ts = Raised THEN Raised
                 ELSE [matched |-> TRUE, event_ts |-> ts,
                       user_email |-> Strip(m.user),
                       item_uuid |-> Strip(m.item)]

\* The lines the matcher is applied to: a time stamp, a fraction, the text
\* up to the actor, the actor, the action and the identifier.
\* "2024-03-01 10:15:00"
StampOk ==
    <<"2", "0", "2", "4", "-", "0", "3", "-", "0", "1", " ", "1", "0",
      ":", "1", "5", ":", "0", "0">>
\* "2024-13-01 10:15:00"
StampMonth13 ==
    <<"2", "0", "2", "4", "-", "1", "3", "-", "0", "1", " ", "1", "0",
      ":", "1", "5", ":", "0", "0">>
\* "2024-03-01 99:15:00"
StampHour99 ==
    <<"2", "0", "2", "4", "-", "0", "3", "-", "0", "1", " ", "9", "9",
      ":", "1", "5", ":", "0", "0">>
\* ",123"
Frac123 ==
    <<",", "1", "2", "3">>
\* ",7"
Frac7 ==
    <<",", "7">>
\* " INFO x.y.ItemServiceImpl @ "
MidExample ==
    <<" ", "I", "N", "F", "O", " ", "x", ".", "y", ".", "I", "t", "e",
      "m", "S", "e", "r", "v", "i", "c", "e", "I", "m", "p", "l", " ",
      "@", " ">>
\* " INFO  unknown unknown org.dspace.content.ItemServiceImpl @ "
MidDSpace ==
    <<" ", "I", "N", "F", "O", " ", " ", "u", "n", "k", "n", "o", "w",
      "n", " ", "u", "n", "k", "n", "o", "w", "n", " ", "o", "r", "g",
      ".", "d", "s", "p", "a", "c", "e", ".", "c", "o", "n", "t", "e",
      "n", "t", ".", "I", "t", "e", "m", "S", "e", "r", "v", "i", "c",
      "e", "I", "m", "p", "l", " ", "@", " ">>
\* "alice@example.org"
Actor ==
    <<"a", "l", "i", "c", "e", "@", "e", "x", "a", "m", "p", "l", "e",
      ".", "o", "r", "g">>
\* "::update_item:item="
VerbNoId ==
    <<":", ":", "u", "p", "d", "a", "t", "e", "_", "i", "t", "e", "m",
      ":", "i", "t", "e", "m", "=">>
\* "123e4567-e89b-12d3-a456-426614174000"
Uuid36 ==
    <<"1", "2", "3", "e", "4", "5", "6", "7", "-", "e", "8", "9", "b",
      "-", "1", "2", "d", "3", "-", "a", "4", "5", "6", "-", "4", "2",
      "6", "6", "1", "4", "1", "7", "4", "0", "0", "0">>
\* "123e4567e89b12d3a456426614174000abcd"
Hex36 ==
    <<"1", "2", "3", "e", "4", "5", "6", "7", "e", "8", "9", "b", "1",
      "2", "d", "3", "a", "4", "5", "6", "4", "2", "6", "6", "1", "4",
      "1", "7", "4", "0", "0", "0", "a", "b", "c", "d">>
Id35 == SubSeq(Uuid36, 1, 35)
Id37 == Uuid36 \o <<"0">>

Stamps == {StampOk, StampMonth13, StampHour99}
Fractions == {Frac123, Frac7, <<>>}
Middles == {MidDSpace, MidExample}
Verbs == {Verb, VerbNoId}
Ids == {Uuid36, Hex36, Id35, Id37}

Lines ==
    [ts : Stamps, frac : Fractions, mid : Middles, actor : {Actor},
     verb : Verbs, id : Ids]

LineText(l) == l.ts \o l.frac \o l.mid \o l.actor \o l.verb \o l.id \o <<NL>>

NoLine ==
    [ts |-> <<>>, frac |-> <<>>, mid |-> <<>>, actor |-> <<>>, verb |-> <<>>,
     id |-> <<>>]
Pending == [pending |-> TRUE]

\* ------------------------------------------------------------ state -----
NoTx == [events |-> <<>>, state |-> NoRow]
NoLoc == [inode |-> 0, file_size |-> 0, state |-> NoRow, start_offset |-> 0,
          rows |-> <<>>,
          lines_read |-> 0, end_offset |-> 0, inserted |-> 0]
NoTotals == [lines |-> 0, parsed |-> 0, inserted |-> 0]
NoArgs == [parser_name |-> "p1", dry_run |-> FALSE]
NoSnap == [schema |-> FALSE, events |-> <<>>,
           parser_state |-> [k \in ParserNames \X AllPaths |-> NoRow],
           fsOps |-> 0, rerun |-> FALSE]
NoStop == [at |-> "none", index |-> 0, file |-> 0, n |-> 0, staged |-> 0,
           error |-> "none"]
NoFile == [kind |-> "none", inode |-> 0, data |-> <<>>]

\* Everything but the log directory, the configuration and the text
\* handed to the line matcher.
InitRest ==
    /\ fsOps = 0
    /\ schema = FALSE
    /\ events = <<>>
    /\ parser_state = [k \in ParserNames \X AllPaths |-> NoRow]
    /\ pc = [r \in Runs |-> "idle"]
    /\ args = [r \in Runs |-> NoArgs]
    /\ files = [r \in Runs |-> <<>>]
    /\ idx = [r \in Runs |-> 0]
    /\ loc = [r \in Runs |-> NoLoc]
    /\ totals = [r \in Runs |-> NoTotals]
    /\ tx = [r \in Runs |-> NoTx]
    /\ out = [r \in Runs |-> <<>>]
    /\ exit = [r \in Runs |-> "none"]
    /\ snap = [r \in Runs |-> NoSnap]
    /\ stopAt = [r \in Runs |-> NoStop]

\* Two empty log files, no compressed one, a usable db.url.
InitDir ==
    /\ fs = [p \in AllPaths |->
                IF p \in Paths
                THEN [kind |-> "file", inode |-> 10 + p, data |-> <<>>]
                ELSE NoFile]
    /\ db_url = TRUE

Init ==
    /\ InitDir
    /\ InitRest
    /\ line_in = NoLine
    /\ parse_out = NoGroups

Stopped == {"idle", "done", "failed", "killed"}

Db == [schema |-> schema, events |-> events, parser_state |-> parser_state]

\* ------------------------------------------------- the connection ------
\* Variant: psycopg.connect(..., autocommit=True).
ExecuteAutocommit(db, t, w) ==
    [db |-> [db EXCEPT !.events = db.events \o w.events,
                       !.parser_state = Upsert(db.parser_state, w.state)],
     tx |-> t]

\* psycopg.connect(...) without autocommit: a statement's writes are staged
\* in the open transaction; w is [events: rows added, state: cursor write].
Execute(db, t, w) ==
    [db |-> db,
     tx |-> [events |-> t.events \o w.events,
             state |-> IF w.state = NoRow THEN t.state ELSE w.state]]

\* Variant: no unique index on line_hash, nothing to wait for.
InsertNeverWaits(rows, committed, pending) == FALSE

\* The unique index on line_hash (line 70): an insert of a key that another
\* open transaction has inserted waits until that transaction ends; a key
\* that is committed is a conflict at once ("do nothing").
InsertWaits(rows, committed, pending) ==
    \E i \in 1..Len(rows) :
        /\ rows[i].line_hash \notin Hashes(committed)
        /\ rows[i].line_hash \in Hashes(pending)

\* The primary key (parser_name, file_path) (line 86): an upsert of a key
\* that another open transaction has written waits until it ends.
UpsertWaits(key, pending) == pending # NoRow /\ pending.key = key

\* Variant: the staged rows take the place of the stored ones.
CommitTxReplace(db, t) ==
    [db EXCEPT !.events = IF t.events = <<>> THEN db.events ELSE t.events,
               !.parser_state = Upsert(db.parser_state, t.state)]

\* conn.commit()
CommitTx(db, t) ==
    [db EXCEPT !.events = db.events \o t.events,
               !.parser_state = Upsert(db.parser_state, t.state)]

\* Variant: the pending writes are committed on the way out.
ExitOnErrorCommit(db, t) == CommitTx(db, t)

\* "with _db_connect() as conn" left by an exception: rollback
ExitOnError(db, t) == db

\* Variant: the flag is not looked at.
AlwaysWrite(dry_run) == TRUE

\* "if not args.dry_run"
WritesEnabled(dry_run) == ~dry_run

\* ---------------------------------------------------- environment ------
EnvMayStep == \A r \in Runs : pc[r] \in {"idle", "collect"}

UsedInodes == {fs[p].inode : p \in Paths}

AppendChunk(p, c) ==
    /\ EnvMayStep
    /\ fsOps < MaxFsOps
    /\ fs[p].kind = "file"
    /\ Len(fs[p].data) + Len(c) <= MaxSize
    /\ fs' = [fs EXCEPT ![p].data = @ \o c]
    /\ fsOps' = fsOps + 1
    /\ UNCHANGED <<dbVars, pc, args, files, idx, loc, totals, tx, out, exit,
                   snap, stopAt, cfgVars, reVars>>

\* copytruncate: same inode, the content is cut and the writer goes on
\* with c (fewer bytes than before)
Truncate(p, c) ==
    /\ EnvMayStep
    /\ fsOps < MaxFsOps
    /\ Len(c) < Len(fs[p].data)
    /\ fs' = [fs EXCEPT ![p].data = c]
    /\ fsOps' = fsOps + 1
    /\ UNCHANGED <<dbVars, pc, args, files, idx, loc, totals, tx, out, exit,
                   snap, stopAt, cfgVars, reVars>>

\* rotation: the path now names a new file, to which the writer has
\* written c
Rotate(p, c) ==
    /\ EnvMayStep
    /\ fsOps < MaxFsOps
    /\ \E i \in Inodes \ UsedInodes :
          fs' = [fs EXCEPT ![p] = [kind |-> "file", inode |-> i, data |-> c]]
    /\ fsOps' = fsOps + 1
    /\ UNCHANGED <<dbVars, pc, args, files, idx, loc, totals, tx, out, exit,
                   snap, stopAt, cfgVars, reVars>>

\* the writer appends at any moment of the invocations
AppendAnyTime(p, c) ==
    /\ fsOps < MaxFsOps
    /\ fs[p].kind = "file"
    /\ Len(fs[p].data) + Len(c) <= MaxSize
    /\ fs' = [fs EXCEPT ![p].data = @ \o c]
    /\ fsOps' = fsOps + 1
    /\ UNCHANGED <<dbVars, pc, args, files, idx, loc, totals, tx, out, exit,
                   snap, stopAt, cfgVars, reVars>>

\* the file is removed while no invocation runs
Unlink(p) ==
    /\ \A r \in Runs : pc[r] = "idle"
    /\ fsOps < MaxFsOps
    /\ fs[p].kind = "file"
    /\ fs' = [fs EXCEPT ![p] = NoFile]
    /\ fsOps' = fsOps + 1
    /\ UNCHANGED <<dbVars, pc, args, files, idx, loc, totals, tx, out, exit,
                   snap, stopAt, cfgVars, reVars>>

\* the file gets another name of the pattern while no invocation reads it;
\* it keeps its inode and its bytes
Rename(p, q) ==
    /\ EnvMayStep
    /\ fsOps < MaxFsOps
    /\ fs[p].kind = "file"
    /\ fs[q].kind = "none"
    /\ fs' = [fs EXCEPT ![q] = fs[p], ![p] = NoFile]
    /\ fsOps' = fsOps + 1
    /\ UNCHANGED <<dbVars, pc, args, files, idx, loc, totals, tx, out, exit,
                   snap, stopAt, cfgVars, reVars>>

\* ------------------------------------------------------------ main -----
CurFile(r) == files[r][idx[r]]

Key(r) == <<args[r].parser_name, CurFile(r)>>

\* history: where and why the invocation stops
Stop(r, e) ==
    [at |-> pc[r], index |-> idx[r],
     file |-> IF idx[r] \in 1..Len(files[r]) THEN CurFile(r) ELSE 0,
     n |-> Len(files[r]), staged |-> Len(tx[r].events), error |-> e]

\* Variant: the empty list is not looked at before the connection.
NoFilesIgnored(fl) == FALSE

\* line 225: "if not files"
NoFiles(fl) == fl = <<>>

\* Variant: the parameters are not looked at.
ConnectAnyway(url) == TRUE

\* _db_connect: a connection, unless _parse_db_url gives None
_db_connect(url) == url

\* An exception nothing catches: it leaves the "with" block of line 233
\* (rollback) and main, and ends the process with a traceback (status 1).
Raise(r, e) ==
    /\ LET db == ExitOnError(Db, tx[r])
       IN  /\ events' = db.events
           /\ parser_state' = db.parser_state
    /\ tx' = [tx EXCEPT ![r] = NoTx]
    /\ out' = [out EXCEPT ![r] = Append(@, [kind |-> "traceback"])]
    /\ stopAt' = [stopAt EXCEPT ![r] = Stop(r, e)]
    /\ exit' = [exit EXCEPT ![r] = "1"]
    /\ pc' = [pc EXCEPT ![r] = "failed"]
    /\ files' = [files EXCEPT ![r] = <<>>]
    /\ idx' = [idx EXCEPT ![r] = 0]
    /\ loc' = [loc EXCEPT ![r] = NoLoc]
    /\ totals' = [totals EXCEPT ![r] = NoTotals]
    /\ UNCHANGED <<envVars, schema, args, snap>>

\* lines 203-227: parse the arguments, list the files
StartRun(r, parser_name, dry_run) ==
    /\ pc[r] \in Stopped
    /\ args' = [args EXCEPT ![r] =
                    [parser_name |-> parser_name, dry_run |-> dry_run]]
    /\ files' = [files EXCEPT ![r] = _iter_files(fs)]
    /\ idx' = [idx EXCEPT ![r] = 0]
    /\ loc' = [loc EXCEPT ![r] = NoLoc]
    /\ totals' = [totals EXCEPT ![r] = NoTotals]
    /\ tx' = [tx EXCEPT ![r] = NoTx]
    /\ snap' = [snap EXCEPT ![r] =
            [schema |-> schema, events |-> events,
             parser_state |-> parser_state, fsOps |-> fsOps,
             rerun |-> /\ pc[r] = "done" /\ out[r] # <<>>
                       /\ out[r][Len(out[r])].kind = "done"
                       /\ ~args[r].dry_run /\ ~dry_run
                       /\ args[r].parser_name = parser_name
                       /\ snap[r].fsOps = fsOps]]
    /\ stopAt' = [stopAt EXCEPT ![r] = NoStop]
    /\ IF NoFiles(files'[r])
       THEN /\ out' = [out EXCEPT ![r] = <<[kind |-> "nofiles"]>>]
            /\ exit' = [exit EXCEPT ![r] = "0"]
            /\ pc' = [pc EXCEPT ![r] = "done"]
       ELSE /\ out' = [out EXCEPT ![r] = <<>>]
            /\ exit' = [exit EXCEPT ![r] = "none"]
            /\ pc' = [pc EXCEPT ![r] = "schema"]
    /\ UNCHANGED <<envVars, dbVars>>

\* lines 233-236: _db_connect (RuntimeError without parameters),
\* _ensure_schema (create ... if not exists, commit), enter the loop
EnsureSchema(r) ==
    /\ pc[r] = "schema"
    /\ IF ~_db_connect(db_url)
       THEN Raise(r, "RuntimeError")
       ELSE /\ schema' = TRUE
            /\ IF files[r] = <<>>
               THEN /\ idx' = idx
                    /\ pc' = [pc EXCEPT ![r] = "summary"]
               ELSE /\ idx' = [idx EXCEPT ![r] = 1]
                    /\ pc' = [pc EXCEPT ![r] = "stat"]
            /\ UNCHANGED <<envVars, events, parser_state, args, files, loc,
                           totals, tx, out, exit, snap, stopAt>>

\* lines 237-246: os.stat, _load_state, start offset
StatLoad(r) ==
    /\ pc[r] = "stat"
    /\ LET p == CurFile(r)
           inode == fs[p].inode
           file_size == Len(fs[p].data)
           state == _load_state(parser_state, args[r].parser_name, p)
       IN  loc' = [loc EXCEPT ![r] =
                [NoLoc EXCEPT !.inode = inode, !.file_size = file_size,
                              !.state = state,
                              !.start_offset =
                                  StartOffset(state, inode, file_size)]]
    /\ pc' = [pc EXCEPT ![r] = "collect"]
    /\ UNCHANGED <<envVars, dbVars, args, files, idx, totals, tx, out, exit,
                   snap, stopAt>>

\* lines 248-254: read the file to its end; the ValueError of a line
\* leaves _collect_events_for_file and main
Collect(r) ==
    /\ pc[r] = "collect"
    /\ LET p == CurFile(r)
           res == _collect_events_for_file(fs[p].data, p, loc[r].inode,
                                           loc[r].start_offset)
       IN  IF res.raised
           THEN Raise(r, "ValueError")
           ELSE /\ loc' = [loc EXCEPT ![r].rows = res.rows,
                                      ![r].lines_read = res.lines_read,
                                      ![r].end_offset = res.end_offset]
                /\ totals' = [totals EXCEPT
                                 ![r].lines = @ + res.lines_read,
                                 ![r].parsed = @ + Len(res.rows)]
                /\ pc' = [pc EXCEPT ![r] =
                            IF WritesEnabled(args[r].dry_run)
                            THEN "insert" ELSE "report"]
                /\ UNCHANGED <<envVars, dbVars, args, files, idx, tx, out,
                               exit, snap, stopAt>>

\* line 255; the error of a statement leaves _insert_events and main.
\* The rows of a scan are inserted in the order of their offsets and carry
\* one inode, so two transactions never wait for each other; the inserts
\* of a file are one step, taken when none of them has to wait.
InsertEvents(r) ==
    /\ pc[r] = "insert"
    /\ \A q \in Runs \ {r} : ~InsertWaits(loc[r].rows, events, tx[q].events)
    /\ LET seen == events \o tx[r].events
           res == _insert_events(seen, loc[r].rows)
           added == SubSeq(res.table, Len(seen) + 1, Len(res.table))
           ex == Execute(Db, tx[r], [events |-> added, state |-> NoRow])
       IN  IF res.raised
           THEN Raise(r, "DataError")
           ELSE /\ loc' = [loc EXCEPT ![r].inserted = res.inserted]
                /\ tx' = [tx EXCEPT ![r] = ex.tx]
                /\ events' = ex.db.events
                /\ parser_state' = ex.db.parser_state
                /\ pc' = [pc EXCEPT ![r] = "save"]
                /\ UNCHANGED <<envVars, schema, args, files, idx, totals, out,
                               exit, snap, stopAt>>

\* line 256
SaveState(r) ==
    /\ pc[r] = "save"
    /\ \A q \in Runs \ {r} : ~UpsertWaits(Key(r), tx[q].state)
    /\ LET w == _save_state(args[r].parser_name, CurFile(r), loc[r].inode,
                            loc[r].end_offset)
           ex == Execute(Db, tx[r], [events |-> <<>>, state |-> w])
       IN  /\ tx' = [tx EXCEPT ![r] = ex.tx]
           /\ events' = ex.db.events
           /\ parser_state' = ex.db.parser_state
    /\ pc' = [pc EXCEPT ![r] = "commit"]
    /\ UNCHANGED <<envVars, schema, args, files, idx, loc, totals, out, exit,
                   snap, stopAt>>

\* line 257
Commit(r) ==
    /\ pc[r] = "commit"
    /\ LET db == CommitTx(Db, tx[r])
       IN  /\ events' = db.events
           /\ parser_state' = db.parser_state
    /\ tx' = [tx EXCEPT ![r] = NoTx]
    /\ pc' = [pc EXCEPT ![r] = "report"]
    /\ UNCHANGED <<envVars, schema, args, files, idx, loc, totals, out, exit,
                   snap, stopAt>>

\* lines 259-262: the line of the file, then the next file
Report(r) ==
    /\ pc[r] = "report"
    /\ totals' = [totals EXCEPT ![r].inserted = @ + loc[r].inserted]
    /\ out' = [out EXCEPT ![r] = Append(@,
                [kind |-> "file", file |-> CurFile(r),
                 lines |-> loc[r].lines_read, parsed |-> Len(loc[r].rows),
                 inserted |-> loc[r].inserted,
                 from |-> loc[r].start_offset, to |-> loc[r].end_offset])]
    /\ IF idx[r] < Len(files[r])
       THEN /\ idx' = [idx EXCEPT ![r] = @ + 1]
            /\ pc' = [pc EXCEPT ![r] = "stat"]
       ELSE /\ idx' = idx
            /\ pc' = [pc EXCEPT ![r] = "summary"]
    /\ loc' = [loc EXCEPT ![r] = NoLoc]
    /\ UNCHANGED <<envVars, dbVars, args, files, tx, exit, snap, stopAt>>

\* lines 264-267: the aggregate line, return 0
Finish(r) ==
    /\ pc[r] = "summary"
    /\ out' = [out EXCEPT ![r] = Append(@,
                [kind |-> "done", files |-> Len(files[r]),
                 lines |-> totals[r].lines, parsed |-> totals[r].parsed,
                 inserted |-> totals[r].inserted])]
    /\ exit' = [exit EXCEPT ![r] = "0"]
    /\ pc' = [pc EXCEPT ![r] = "done"]
    /\ files' = [files EXCEPT ![r] = <<>>]
    /\ idx' = [idx EXCEPT ![r] = 0]
    /\ totals' = [totals EXCEPT ![r] = NoTotals]
    /\ UNCHANGED <<envVars, dbVars, args, loc, tx, snap, stopAt>>

\* A statement (connect, select, insert, upsert, commit) raises: main has
\* no handler, the exception leaves the "with" block (rollback) and ends
\* the process with a traceback.  A commit that raises has not committed.
DbPoints == {"schema", "stat", "insert", "save", "commit"}

StorageError(r) ==
    /\ pc[r] \in DbPoints
    /\ Raise(r, "OperationalError")

\* The process is killed: the server rolls the open transaction back.
Kill(r) ==
    /\ pc[r] \notin Stopped
    /\ tx' = [tx EXCEPT ![r] = NoTx]
    /\ exit' = [exit EXCEPT ![r] = "killed"]
    /\ pc' = [pc EXCEPT ![r] = "killed"]
    /\ files' = [files EXCEPT ![r] = <<>>]
    /\ idx' = [idx EXCEPT ![r] = 0]
    /\ loc' = [loc EXCEPT ![r] = NoLoc]
    /\ totals' = [totals EXCEPT ![r] = NoTotals]
    /\ stopAt' = [stopAt EXCEPT ![r] = Stop(r, "killed")]
    /\ UNCHANGED <<envVars, dbVars, args, out, snap>>

\* The scheduler has collected the output and the exit status of the
\* invocation and waits for the next period.
Wait(r) ==
    /\ pc[r] \in {"done", "failed", "killed"}
    /\ pc' = [pc EXCEPT ![r] = "idle"]
    /\ args' = [args EXCEPT ![r] = NoArgs]
    /\ out' = [out EXCEPT ![r] = <<>>]
    /\ exit' = [exit EXCEPT ![r] = "none"]
    /\ snap' = [snap EXCEPT ![r] = NoSnap]
    /\ stopAt' = [stopAt EXCEPT ![r] = NoStop]
    /\ UNCHANGED <<envVars, dbVars, files, idx, loc, totals, tx>>

RunStep(r, names, flags) ==
    \/ \E n \in names, d \in flags : StartRun(r, n, d)
    \/ EnsureSchema(r)
    \/ StatLoad(r)
    \/ Collect(r)
    \/ InsertEvents(r)
    \/ SaveState(r)
    \/ Commit(r)
    \/ Report(r)
    \/ Finish(r)
    \/ StorageError(r)
    \/ Kill(r)
    \/ Wait(r)

\* the steps of an invocation while the store answers and nobody kills it
RunStepOk(r, names, flags) ==
    \/ \E n \in names, d \in flags : StartRun(r, n, d)
    \/ EnsureSchema(r)
    \/ StatLoad(r)
    \/ Collect(r)
    \/ InsertEvents(r)
    \/ SaveState(r)
    \/ Commit(r)
    \/ Report(r)
    \/ Finish(r)
    \/ Wait(r)

Grow == \E p \in Paths, c \in Chunks : AppendChunk(p, c)

EnvStep ==
    \/ Grow
    \/ \E p \in Paths, c \in Chunks \cup {<<>>} : Truncate(p, c)
    \/ \E p \in Paths, c \in {<<>>, <<H, T, NL>>} : Rotate(p, c)

\* One invocation at a time under the default parser name; the files are
\* appended to, truncated and rotated.
Next == EnvStep \/ \E r \in SeqRuns : RunStep(r, {"p1"}, BOOLEAN)

Spec == Init /\ [][Next]_vars

\* One invocation at a time under either parser name, without --dry-run;
\* the files only grow and keep their identity.
NextAppend == Grow \/ \E r \in SeqRuns : RunStep(r, ParserNames, {FALSE})

SpecAppend == Init /\ [][NextAppend]_vars

\* One invocation at a time under the default parser name, without
\* --dry-run; the files grow by whole lines of every kind.
GrowLines == \E p \in Paths, c \in LineChunks : AppendChunk(p, c)

NextLines == GrowLines \/ \E r \in SeqRuns : RunStep(r, {"p1"}, {FALSE})

SpecLines == Init /\ [][NextLines]_vars

\* One empty log file.
InitOneFile ==
    /\ fs = [p \in AllPaths |->
                IF p = 1
                THEN [kind |-> "file", inode |-> 10 + p, data |-> <<>>]
                ELSE NoFile]
    /\ db_url = TRUE
    /\ InitRest
    /\ line_in = NoLine
    /\ parse_out = NoGroups

\* Two invocations, each started once and at any moment of the other,
\* under the default parser name, without --dry-run, while the store
\* answers; the file only grows and keeps its identity.
RunOnce(r) ==
    \/ pc[r] = "idle" /\ StartRun(r, "p1", FALSE)
    \/ EnsureSchema(r)
    \/ StatLoad(r)
    \/ Collect(r)
    \/ InsertEvents(r)
    \/ SaveState(r)
    \/ Commit(r)
    \/ Report(r)
    \/ Finish(r)

NextTwo ==
    \/ \E p \in Paths, c \in Chunks : AppendAnyTime(p, c)
    \/ \E r \in Runs : RunOnce(r)

SpecTwo == InitOneFile /\ [][NextTwo]_vars

\* One log file that holds any bytes of audit records and line ends.
Contents == UNION {[1..n -> {H, T, NL}] : n \in 0..MaxScanLen}

InitScan ==
    /\ \E d \in Contents :
          fs = [p \in AllPaths |->
                   IF p = 1
                   THEN [kind |-> "file", inode |-> 10 + p, data |-> d]
                   ELSE NoFile]
    /\ db_url = TRUE
    /\ InitRest
    /\ line_in = NoLine
    /\ parse_out = NoGroups

AppendScan(p, c) ==
    /\ EnvMayStep
    /\ fsOps < MaxFsOps
    /\ fs[p].kind = "file"
    /\ Len(fs[p].data) + Len(c) <= MaxScanLen
    /\ fs' = [fs EXCEPT ![p].data = @ \o c]
    /\ fsOps' = fsOps + 1
    /\ UNCHANGED <<dbVars, pc, args, files, idx, loc, totals, tx, out, exit,
                   snap, stopAt, cfgVars, reVars>>

\* One invocation at a time under the default parser name, with or without
\* --dry-run, while the store answers; the file holds several lines and
\* grows.
NextScan ==
    \/ \E p \in Paths, c \in Chunks : AppendScan(p, c)
    \/ \E r \in SeqRuns : RunStepOk(r, {"p1"}, BOOLEAN)

SpecScan == InitScan /\ [][NextScan]_vars

\* One invocation after another under the default parser name, without
\* --dry-run, started again and again by the scheduler while the store
\* answers; the files grow by whole lines of every kind.
NextRetry == GrowLines \/ \E r \in SeqRuns : RunStepOk(r, {"p1"}, {FALSE})

SpecRetry ==
    /\ Init
    /\ [][NextRetry]_vars
    /\ WF_vars(\E r \in SeqRuns : RunStepOk(r, {"p1"}, {FALSE}))

\* One log file whose writer may be in the middle of a line.
InitPartial ==
    /\ \E d \in {<<>>, <<H>>, <<H, T, NL>>} :
          fs = [p \in AllPaths |->
                   IF p = 1
                   THEN [kind |-> "file", inode |-> 10 + p, data |-> d]
                   ELSE NoFile]
    /\ db_url = TRUE
    /\ InitRest
    /\ line_in = NoLine
    /\ parse_out = NoGroups

\* One invocation at a time under the default parser name, without
\* --dry-run, while the store answers; the file grows, keeps its identity
\* and is renamed within the pattern.
NextRename ==
    \/ Grow
    \/ \E p, q \in Paths : Rename(p, q)
    \/ \E r \in SeqRuns : RunStepOk(r, {"p1"}, {FALSE})

SpecRename == InitPartial /\ [][NextRename]_vars

\* What the pattern of --log-glob may find under a name: nothing, a
\* directory, a file that is empty or holds one audit record.
Entries(p) ==
    {NoFile, [kind |-> "dir", inode |-> 10 + p, data |-> <<>>]}
    \cup {[kind |-> "file", inode |-> 10 + p, data |-> d] :
              d \in {<<>>, <<H, T, NL>>}}

Dirs == {d \in [AllPaths -> UNION {Entries(p) : p \in AllPaths}] :
            \A p \in AllPaths : d[p] \in Entries(p)}

InitStart ==
    /\ fs \in Dirs
    /\ db_url \in BOOLEAN
    /\ InitRest
    /\ line_in = NoLine
    /\ parse_out = NoGroups

\* One invocation at a time under the default parser name, in any
\* directory, with and without a usable db.url; files are removed between
\* invocations.
NextStart ==
    \/ \E p \in AllPaths : Unlink(p)
    \/ \E r \in SeqRuns : RunStep(r, {"p1"}, BOOLEAN)

SpecStart == InitStart /\ [][NextStart]_vars

\* The line matcher applied to one line of Lines.
ParseLine ==
    /\ parse_out = Pending
    /\ parse_out' = ParseLineText(LineText(line_in))
    /\ UNCHANGED <<fsVars, cfgVars, line_in, dbVars, pc, args, files, idx,
                   loc, totals, tx, out, exit, snap, stopAt>>

InitMatch ==
    /\ InitDir
    /\ InitRest
    /\ line_in \in Lines
    /\ parse_out = Pending

NextMatch == ParseLine

SpecMatch == InitMatch /\ [][NextMatch]_vars

\* ------------------------------------------------------- properties ----
Range(s) == {s[i] : i \in 1..Len(s)}

\* number of lines a reader finds from position start to the end of data
CountLinesFrom(data, start) ==
    IF start >= Len(data) THEN 0
    ELSE Cardinality({i \in (start + 1)..Len(data) : data[i] = NL})
         + (IF data[Len(data)] = NL THEN 0 ELSE 1)

Scanned == {"insert", "save", "commit", "report"}
WritePoints == {"insert", "save", "commit"}
CommitStep(r) == pc[r] = "commit" /\ pc'[r] = "report"
FileLines(r) == {i \in 1..Len(out[r]) : out[r][i].kind = "file"}

\* C1 (idempotence): a completed run without --dry-run that directly
\* follows a completed run without --dry-run under the same parser name,
\* the files being the same from the start of the first to the end of the
\* second, has inserted no event and has left the cursor table as the first
\* run left it.
C1_Idempotent ==
    \A r \in Runs :
        (pc[r] = "done" /\ snap[r].rerun /\ snap[r].fsOps = fsOps)
        => /\ events = snap[r].events
           /\ parser_state = snap[r].parser_state
           /\ out[r][Len(out[r])].inserted = 0
           /\ \A i \in FileLines(r) : out[r][i].inserted = 0

C1_Witness ==
    \E r \in Runs :
        /\ pc[r] = "done" /\ snap[r].rerun /\ snap[r].fsOps = fsOps
        /\ events # <<>>
        /\ \E k \in DOMAIN parser_state :
              parser_state[k] # NoRow /\ parser_state[k].offset > 0

\* C2 (at most once under replay): when the candidate events of a scan are
\* all stored already (the scan repeats one whose events were persisted),
\* _insert_events reports 0 and the table holds each of them once.
C2_Replay ==
    \A r \in Runs :
        (pc[r] = "save" /\ loc[r].rows # <<>>
         /\ Range(loc[r].rows) \subseteq Range(events))
        => /\ loc[r].inserted = 0
           /\ tx[r].events = <<>>
           /\ \A row \in Range(loc[r].rows) :
                 Cardinality({j \in 1..Len(events) :
                     events[j].line_hash = row.line_hash}) = 1

C2_Witness ==
    \E r \in Runs :
        /\ pc[r] = "save" /\ loc[r].rows # <<>>
        /\ Range(loc[r].rows) \subseteq Range(events)
        /\ loc[r].state = NoRow /\ loc[r].start_offset = 0
        /\ loc[r].inserted = 0

C4_Atomic ==
    [][\/ UNCHANGED <<events, parser_state>>
       \/ \E r \in Runs :
            /\ CommitStep(r)
            /\ parser_state' = [parser_state EXCEPT ![Key(r)] =
                    [inode |-> loc[r].inode, offset |-> loc[r].end_offset]]
            /\ SubSeq(events', 1, Len(events)) = events
            /\ \A j \in (Len(events) + 1)..Len(events') :
                  events'[j] \in Range(loc[r].rows)
            /\ Hashes(events') = Hashes(events) \cup Hashes(loc[r].rows)]_vars

C4_Witness ==
    \E r \in Runs :
        /\ pc[r] = "killed"
        /\ stopAt[r].at = "commit" /\ stopAt[r].staged > 0
        /\ stopAt[r].index = 2
        /\ events = snap[r].events
        /\ parser_state[<<args[r].parser_name, 2>>]
               = snap[r].parser_state[<<args[r].parser_name, 2>>]
        /\ parser_state[<<args[r].parser_name, 1>>]
               # snap[r].parser_state[<<args[r].parser_name, 1>>]

\* C5 (partial failure isolation), as claimed: when the write transaction
\* of one of n >= 2 files fails, the run still reports every other file and
\* ends with the aggregate line.
C5_Isolation ==
    \A r \in Runs :
        (pc[r] = "failed" /\ stopAt[r].at \in WritePoints /\ stopAt[r].n >= 2)
        => /\ \A f \in Range(_iter_files(fs)) \ {stopAt[r].file} :
                 \E i \in FileLines(r) : out[r][i].file = f
           /\ \E i \in 1..Len(out[r]) : out[r][i].kind = "done"

\* C6 (rotation detection): when the inode of the file differs from the
\* inode in its cursor row, the scan starts at 0 and covers the whole file,
\* whatever the stored offset.
C6_Rotation ==
    \A r \in Runs :
        (pc[r] \in Scanned \cup {"collect"} /\ loc[r].state # NoRow
         /\ loc[r].state.inode # loc[r].inode)
        => /\ loc[r].start_offset = 0
           /\ pc[r] \in Scanned =>
                /\ loc[r].lines_read = CountLinesFrom(fs[CurFile(r)].data, 0)
                /\ loc[r].end_offset = Len(fs[CurFile(r)].data)

C6_Witness ==
    \E r \in Runs :
        /\ pc[r] = "insert" /\ loc[r].state # NoRow
        /\ loc[r].state.inode # loc[r].inode
        /\ loc[r].state.offset >= 1
        /\ loc[r].state.offset <= loc[r].file_size
        /\ loc[r].rows # <<>>

\* C7 (truncation): when the cursor row has the inode of the file and an
\* offset above the size of the file, the scan starts at 0, inside the
\* file, and reads every line of the content.
C7_Truncation ==
    \A r \in Runs :
        (pc[r] \in Scanned \cup {"collect"} /\ loc[r].state # NoRow
         /\ loc[r].state.inode = loc[r].inode
         /\ loc[r].state.offset > loc[r].file_size)
        => /\ loc[r].start_offset = 0
           /\ pc[r] \in Scanned =>
                /\ loc[r].start_offset <= Len(fs[CurFile(r)].data)
                /\ loc[r].lines_read = CountLinesFrom(fs[CurFile(r)].data, 0)
                /\ loc[r].end_offset = Len(fs[CurFile(r)].data)

C7_Witness ==
    \E r \in Runs :
        /\ pc[r] = "insert" /\ loc[r].state # NoRow
        /\ loc[r].state.inode = loc[r].inode
        /\ loc[r].state.offset > loc[r].file_size
        /\ loc[r].lines_read > 0

\* C8 (storage failure leaves the cursor untouched): after a run that
\* ended in a storage error while inserting, saving or committing for a
\* file, the cursor row of that file is the row it was before the run.
C8_CursorUntouched ==
    \A r \in Runs :
        (pc[r] = "failed" /\ stopAt[r].at \in WritePoints)
        => parser_state[<<args[r].parser_name, stopAt[r].file>>]
             = snap[r].parser_state[<<args[r].parser_name, stopAt[r].file>>]

C8_Witness ==
    \E r \in Runs :
        /\ pc[r] = "failed" /\ stopAt[r].at = "commit"
        /\ stopAt[r].staged > 0
        /\ parser_state[<<args[r].parser_name, stopAt[r].file>>] # NoRow

\* C9 (dry run writes no rows): during and after a run with --dry-run both
\* tables hold the rows they held when it began; each file is scanned from
\* its start offset to its end and reported with inserted = 0.
C9_DryRun ==
    \A r \in Runs :
        (pc[r] # "idle" /\ args[r].dry_run)
        => /\ events = snap[r].events
           /\ parser_state = snap[r].parser_state
           /\ pc[r] = "report" =>
                /\ loc[r].inserted = 0
                /\ loc[r].lines_read =
                      CountLinesFrom(fs[CurFile(r)].data, loc[r].start_offset)
           /\ pc[r] = "done" =>
                /\ Cardinality(FileLines(r)) = Cardinality(Paths)
                /\ \A i \in 1..Len(out[r]) : out[r][i].inserted = 0

C9_Witness ==
    \E r \in Runs :
        /\ pc[r] = "done" /\ args[r].dry_run
        /\ events # <<>>
        /\ \E i \in FileLines(r) : out[r][i].parsed > 0

\* C10 (dry run persists nothing), as claimed: a run with --dry-run leaves
\* the existence of the tables and indexes as it found it.
C10_NoSchemaChange ==
    \A r \in Runs :
        (pc[r] # "idle" /\ args[r].dry_run) => schema = snap[r].schema

\* ------------------------------------------- properties, C11 to C20 ----
Max(a, b) == IF a >= b THEN a ELSE b

\* the datetime of StampOk
DateOk ==
    [year |-> 2024, month |-> 3, day |-> 1, hour |-> 10, minute |-> 15,
     second |-> 0]

Tuple(ts, user, item) ==
    [matched |-> TRUE, event_ts |-> ts, user_email |-> user,
     item_uuid |-> item]

\* the invocation found files and ended at the statement of a file
FileFailed(r) ==
    pc[r] = "failed" /\ stopAt[r].at \in WritePoints /\ stopAt[r].n >= 1
FoundFiles(r) ==
    pc[r] = "done" /\ out[r] # <<>> /\ out[r][1].kind # "nofiles"

\* C11 (no single line aborts a scan), as claimed: whatever the lines of
\* the file are, the step that reads the file ends the scan with every
\* line from the start offset to the end of the file counted and the end
\* of the file reached.
C11_NoLineAborts ==
    [][\A r \in Runs :
        (pc[r] = "collect" /\ pc'[r] \notin {"collect", "killed"})
        => /\ pc'[r] \in {"insert", "report"}
           /\ loc'[r].lines_read =
                 CountLinesFrom(fs[CurFile(r)].data, loc[r].start_offset)
           /\ loc'[r].end_offset = Len(fs[CurFile(r)].data)]_vars

\* C12 (grammar, positive case), as claimed: every line made of a time
\* stamp with a fraction, text that ends with the marker
\* "ItemServiceImpl @", an actor, "::update_item:item_id=" and 36
\* hexadecimal digits and hyphens, the example line among them, yields the
\* time, the actor and the identifier written in it.
C12_MarkerLater ==
    (/\ parse_out # Pending
     /\ line_in.ts = StampOk /\ line_in.frac = Frac123
     /\ line_in.verb = Verb /\ line_in.id \in {Uuid36, Hex36})
    => parse_out = Tuple(DateOk, line_in.actor, line_in.id)

\* C12 (grammar, positive case), amended: a line made of a time stamp, a
\* comma and digits, a level, two more words, the logger name
\* "org.dspace.content.ItemServiceImpl", "@", an actor,
\* "::update_item:item_id=" and 36 hexadecimal digits and hyphens yields
\* the time, the actor and the identifier written in it; the same line
\* with "x.y.ItemServiceImpl" right after the level yields no match.
C12_DSpaceLine ==
    (/\ parse_out # Pending
     /\ line_in.ts = StampOk /\ line_in.frac # <<>>
     /\ line_in.verb = Verb /\ line_in.id \in {Uuid36, Hex36})
    => /\ line_in.mid = MidDSpace
            => parse_out = Tuple(DateOk, line_in.actor, line_in.id)
       /\ line_in.mid = MidExample => parse_out = NoGroups

C12_Witness ==
    /\ line_in.mid = MidDSpace /\ line_in.frac = Frac123
    /\ parse_out = Tuple(DateOk, Actor, Uuid36)

\* C13 (grammar, negative cases), as claimed: a line without "item_id=" and
\* a line whose identifier has 35 or 37 hexadecimal digits and hyphens
\* yield no match, and an identifier that is returned is the identifier
\* written in the line.
C13_Exactly36 ==
    (parse_out # Pending /\ line_in.ts = StampOk)
    => /\ line_in.verb = VerbNoId => parse_out = NoGroups
       /\ line_in.id \in {Id35, Id37} => parse_out = NoGroups
       /\ parse_out # NoGroups => parse_out.item_uuid = line_in.id

\* C14 (optional fraction), as claimed: a line without the fraction yields
\* what the same line with ",123" yields, and a line that conforms
\* otherwise yields a tuple.
C14_FractionOptional ==
    (parse_out # Pending /\ line_in.frac = <<>>)
    => /\ parse_out =
            ParseLineText(LineText([line_in EXCEPT !.frac = Frac123]))
       /\ (/\ line_in.ts = StampOk /\ line_in.mid = MidDSpace
           /\ line_in.verb = Verb /\ line_in.id = Uuid36)
          => parse_out = Tuple(DateOk, Actor, Uuid36)

\* C14 (fraction), amended: the digits of the fraction never change what a
\* line yields, a conforming line with a fraction yields the time of its
\* time stamp without the fraction, and a line without the fraction yields
\* no match.
C14_FractionIgnored ==
    parse_out # Pending
    => /\ line_in.frac # <<>> =>
            /\ \A f \in Fractions \ {<<>>} :
                  parse_out = ParseLineText(LineText([line_in EXCEPT !.frac = f]))
            /\ (/\ line_in.ts = StampOk /\ line_in.mid = MidDSpace
                /\ line_in.verb = Verb /\ line_in.id = Uuid36)
               => parse_out = Tuple(DateOk, Actor, Uuid36)
       /\ line_in.frac = <<>> => parse_out = NoGroups

C14_Witness ==
    /\ line_in.frac = Frac7 /\ line_in.id = Uuid36
    /\ parse_out # Pending /\ parse_out # NoGroups /\ parse_out # Raised
    /\ parse_out.event_ts = DateOk

\* C15 (insert if new), as claimed: unless the store fails or the process
\* is killed, the insert of the candidate rows of a file adds exactly the
\* rows whose dedup key is not stored yet, each once, and reports their
\* number.
C15_InsertIfNew ==
    [][\A r \in Runs :
        (/\ pc[r] = "insert" /\ pc'[r] \notin {"insert", "killed"}
         /\ ~(pc'[r] = "failed" /\ stopAt'[r].error = "OperationalError"))
        => LET rows == loc[r].rows
               seen == events \o tx[r].events
               seenAfter == events' \o tx'[r].events
               fresh == {i \in 1..Len(rows) :
                            /\ rows[i].line_hash \notin Hashes(seen)
                            /\ \A j \in 1..(i - 1) :
                                  rows[j].line_hash # rows[i].line_hash}
           IN  /\ pc'[r] = "save"
               /\ Hashes(seenAfter) = Hashes(seen) \cup Hashes(rows)
               /\ Len(seenAfter) = Len(seen) + Cardinality(fresh)
               /\ loc'[r].inserted = Cardinality(fresh)]_vars

\* C16 (unconditional cursor advance): when a file has been scanned and
\* committed without --dry-run, the cursor row of (parser name, path) is
\* the inode the run found and the position its scan ended at, which is
\* the end of the file, whatever the scan read or matched and whether or
\* not there was a row before; a row with the inode of the file and an
\* offset inside the file is where the next scan starts.
C16_CursorAdvance ==
    \A r \in Runs :
        /\ (pc[r] = "report" /\ ~args[r].dry_run)
           => /\ parser_state[Key(r)] =
                    [inode |-> loc[r].inode, offset |-> loc[r].end_offset]
              /\ loc[r].end_offset =
                    Max(loc[r].start_offset, Len(fs[CurFile(r)].data))
        /\ (/\ pc[r] \in Scanned \cup {"collect"} /\ loc[r].state # NoRow
            /\ loc[r].state.inode = loc[r].inode
            /\ loc[r].state.offset <= loc[r].file_size)
           => loc[r].start_offset = loc[r].state.offset

C16_Witness ==
    \E r \in Runs :
        /\ pc[r] = "report" /\ ~args[r].dry_run
        /\ loc[r].rows = <<>> /\ loc[r].lines_read = 0
        /\ loc[r].state = NoRow
        /\ parser_state[Key(r)] # NoRow

\* C17 (every matched file is reported), as claimed: a run that found n
\* files and has ended, also by the failure of a statement of one file,
\* has printed one line for each of the n files and then the aggregate
\* line.
C17_AllReported ==
    \A r \in Runs :
        /\ FileFailed(r)
           => /\ Cardinality({i \in 1..Len(out[r]) :
                     out[r][i].kind \in {"file", "failure"}}) = stopAt[r].n
              /\ out[r][Len(out[r])].kind = "done"
        /\ FoundFiles(r)
           => /\ Cardinality(FileLines(r)) = out[r][Len(out[r])].files
              /\ out[r][Len(out[r])].kind = "done"

\* C18 (exit status), as claimed: a run that found files ends with status
\* 0, also when a statement of one file failed, and prints no traceback.
C18_ExitZero ==
    \A r \in Runs :
        (FileFailed(r) \/ FoundFiles(r))
        => /\ exit[r] = "0"
           /\ \A i \in 1..Len(out[r]) : out[r][i].kind # "traceback"

\* C19 (configuration missing), as claimed: without a usable db.url no
\* invocation, whatever the pattern finds, ends with status 0, reads a
\* file or changes the store.
C19_AlwaysFatal ==
    \A r \in Runs :
        (pc[r] # "idle" /\ ~db_url)
        => /\ pc[r] \in {"schema", "failed", "killed"}
           /\ exit[r] # "0"
           /\ Db = [schema |-> snap[r].schema, events |-> snap[r].events,
                    parser_state |-> snap[r].parser_state]

\* C19 (configuration missing), amended: without a usable db.url an
\* invocation whose pattern finds a file ends at the connection with an
\* error (status 1), with or without --dry-run, having read no file and
\* changed nothing in the store.
C19_FatalWithFiles ==
    \A r \in Runs :
        (pc[r] # "idle" /\ ~db_url /\ _iter_files(fs) # <<>>)
        => /\ pc[r] \in {"schema", "failed", "killed"}
           /\ pc[r] = "failed"
                => /\ exit[r] = "1" /\ stopAt[r].at = "schema"
                   /\ stopAt[r].index = 0
           /\ loc[r] = NoLoc /\ totals[r] = NoTotals
           /\ FileLines(r) = {}
           /\ Db = [schema |-> snap[r].schema, events |-> snap[r].events,
                    parser_state |-> snap[r].parser_state]

C19_Witness ==
    \E r \in Runs :
        /\ pc[r] = "failed" /\ ~db_url /\ args[r].dry_run
        /\ stopAt[r].error = "RuntimeError" /\ stopAt[r].n = 2
        /\ \E p \in Paths : fs[p].data # <<>>

\* C20 (no files is not an error): a run whose pattern finds no regular
\* file without ".gz" has ended with status 0 and the one line "No files
\* matched", has read no file and has left the schema and both tables as
\* they were.
C20_NoFiles ==
    \A r \in Runs :
        (pc[r] # "idle" /\ _iter_files(fs) = <<>>)
        => /\ pc[r] = "done" /\ exit[r] = "0"
           /\ out[r] = <<[kind |-> "nofiles"]>>
           /\ loc[r] = NoLoc /\ totals[r] = NoTotals /\ tx[r] = NoTx
           /\ Db = [schema |-> snap[r].schema, events |-> snap[r].events,
                    parser_state |-> snap[r].parser_state]

C20_Witness ==
    \E r \in Runs :
        /\ pc[r] = "done" /\ _iter_files(fs) = <<>>
        /\ \E p \in Paths : fs[p].kind = "dir"
        /\ \E p \in GzPaths : fs[p].kind = "file" /\ fs[p].data # <<>>
        /\ events # <<>>

\* ------------------------------------------- properties, C21 to C30 ----
Running == {"schema", "stat", "collect", "insert", "save", "commit",
            "report", "summary"}

Unique(table) ==
    \A i, j \in 1..Len(table) :
        table[i].line_hash = table[j].line_hash => i = j

\* C22 (cursor upsert, last writer wins): of two invocations that save the
\* cursor of one key at the same time one waits for the other; a save on a
\* key, with or without a row, ends with the row staged, and each commit
\* leaves under the key the inode and the offset of the save it commits,
\* and the other keys as they are.
C22_LastWriterWins ==
    [][\A r \in Runs :
        /\ (pc[r] = "save" /\ pc'[r] # "save")
           => /\ pc'[r] = "commit"
              /\ tx'[r].state =
                    [key |-> Key(r),
                     row |-> [inode |-> loc[r].inode,
                              offset |-> loc[r].end_offset]]
              /\ \A q \in Runs \ {r} :
                    tx'[q].state # NoRow => tx'[q].state.key # Key(r)
        /\ CommitStep(r)
           => parser_state' =
                 [parser_state EXCEPT ![Key(r)] = tx[r].state.row]]_vars

C22_Witness ==
    \E r \in Runs :
        /\ pc[r] = "commit"
        /\ loc[r].state = NoRow
        /\ parser_state[Key(r)] # NoRow
        /\ tx[r].state.row # parser_state[Key(r)]

\* C29 (no duplicate storage under concurrent runs): at every moment of two
\* invocations that run at the same time no two rows of the events table
\* have one dedup key, a commit adds as many rows as the invocation counted
\* as inserted and prints, and when both have ended the two totals add up
\* to the number of rows stored.
C29_NoDuplicates ==
    [][/\ Unique(events')
       /\ \A r \in Runs :
            /\ CommitStep(r) => Len(events') = Len(events) + loc[r].inserted
            /\ (pc[r] = "report" /\ pc'[r] # "report")
               => out'[r][Len(out'[r])].inserted = loc[r].inserted
       /\ (\A r \in Runs : pc'[r] = "done")
          => Len(events') =
                out'["r1"][Len(out'["r1"])].inserted
                + out'["r2"][Len(out'["r2"])].inserted]_vars

C29_Witness ==
    \E r, q \in Runs :
        /\ r # q
        /\ pc[r] = "commit" /\ tx[r].events # <<>>
        /\ pc[q] = "insert" /\ loc[q].rows # <<>>
        /\ loc[q].state = loc[r].state
        /\ Hashes(loc[q].rows) = Hashes(loc[r].rows)

\* C30 (cursor never regresses under concurrent runs), as claimed: while
\* two invocations run at the same time on a file that only grows, no step
\* lowers the committed offset of a key.
C30_NeverRegresses ==
    [][\A k \in DOMAIN parser_state :
        parser_state[k] # NoRow
        => /\ parser_state'[k] # NoRow
           /\ parser_state'[k].offset >= parser_state[k].offset]_vars

\* C30, amended: on a file that only grows, a commit never stores an offset
\* below the offset its invocation loaded, so it does not lower the
\* committed offset when the row it loaded is still the committed one.
C30_NoRegressFromLoaded ==
    [][\A r \in Runs :
        (CommitStep(r) /\ loc[r].state # NoRow)
        => /\ parser_state'[Key(r)].offset >= loc[r].state.offset
           /\ parser_state[Key(r)] = loc[r].state
              => parser_state'[Key(r)].offset
                    >= parser_state[Key(r)].offset]_vars

C30_Witness ==
    \E r, q \in Runs :
        /\ r # q
        /\ pc[r] = "commit" /\ pc[q] \in Running
        /\ loc[r].state # NoRow /\ loc[r].state = parser_state[Key(r)]
        /\ tx[r].state.row.offset > loc[r].state.offset

\* C23 (events are write-once): no step of any invocation (normal, dry-run,
\* failing or repeated) nor of the environment removes or changes a row of
\* the events table; the table only grows at its end.
C23_WriteOnce ==
    [][/\ Len(events') >= Len(events)
       /\ \A i \in 1..Len(events) : events'[i] = events[i]]_vars

C23_Witness ==
    \E r \in Runs :
        /\ pc[r] = "failed"
        /\ stopAt[r].staged > 0
        /\ events # <<>>

\* C25 (every candidate event is storable), as claimed: no invocation ends
\* because the store rejects the field values of a candidate row; a row
\* whose subject_id is 36 hex or hyphen characters is inserted or is a
\* conflict, never an error.
C25_Storable ==
    \A r \in Runs :
        /\ pc[r] = "failed" => stopAt[r].error # "DataError"
        /\ pc[r] \in {"save", "commit"}
           => \A i \in 1..Len(loc[r].rows) :
                 loc[r].rows[i].line_hash \in Hashes(events \o tx[r].events)

\* C24 (scan ordering): the candidate rows of a scan have strictly
\* increasing source offsets, each the start of a line and inside
\* [start_offset, end_offset), the scan ends at the end of the file with
\* start_offset <= end_offset, and the cursor is written once per scan, at
\* the save that follows the scan and the preparation of its rows, with
\* the end offset of the scan.
C24_ScanOrder ==
    [][\A r \in Runs :
        /\ (pc[r] = "collect" /\ pc'[r] \in {"insert", "report"})
           => LET data == fs[CurFile(r)].data
                  rows == loc'[r].rows
                  from == loc'[r].start_offset
                  to == loc'[r].end_offset
              IN  /\ from = loc[r].start_offset
                  /\ from <= to /\ to = Len(data)
                  /\ \A i \in 1..Len(rows) :
                        /\ from <= rows[i].source_offset
                        /\ rows[i].source_offset < to
                        /\ \/ rows[i].source_offset = from
                           \/ data[rows[i].source_offset] = NL
                        /\ rows[i].line_hash =
                              LineHash(loc[r].inode, rows[i].source_offset,
                                  Decode(ReadLineFrom(data,
                                             rows[i].source_offset)))
                  /\ \A i, j \in 1..Len(rows) :
                        i < j => rows[i].source_offset < rows[j].source_offset
        /\ tx'[r].state # tx[r].state
           => \/ tx'[r].state = NoRow
              \/ /\ pc[r] = "save" /\ pc'[r] = "commit"
                 /\ tx[r].state = NoRow
                 /\ tx'[r].state.key = Key(r)
                 /\ tx'[r].state.row.offset = loc[r].end_offset
        /\ (pc[r] \in {"collect", "insert"} /\ pc'[r] = pc[r])
           => tx'[r].state = NoRow
        /\ (pc[r] = "commit" /\ pc'[r] = "report") => tx[r].state # NoRow]_vars

C24_Witness ==
    \E r \in Runs :
        /\ pc[r] = "commit"
        /\ loc[r].start_offset > 0
        /\ Len(loc[r].rows) >= 2
        /\ tx[r].state # NoRow

\* the starts of the complete lines of data that match the grammar
MatchStarts(data) ==
    {s \in 0..(Len(data) - 1) :
        /\ s = 0 \/ data[s] = NL
        /\ LET raw_line == ReadLineFrom(data, s)
           IN  /\ raw_line[Len(raw_line)] = NL
               /\ ReMatch(Strip(Decode(raw_line)))}

\* how many stored events carry the key of the line of file p at s
StoredTimes(p, s) ==
    Cardinality({i \in 1..Len(events) :
        events[i].line_hash =
            LineHash(fs[p].inode, s, Decode(ReadLineFrom(fs[p].data, s)))})

AllStored(p) ==
    \A s \in MatchStarts(fs[p].data) : StoredTimes(p, s) = 1

\* C26 (eventual progress under retry), as claimed: while the store
\* answers and the pipeline is invoked again and again, from some moment
\* on every file of the pattern has its cursor at its end and each of its
\* complete matching lines stored.
C26_EventualProgress ==
    <>[](\A p \in Paths :
            fs[p].kind = "file"
            => /\ parser_state[<<"p1", p>>] # NoRow
               /\ parser_state[<<"p1", p>>].offset = Len(fs[p].data)
               /\ AllStored(p))

\* C27 (no event lost to a partially written line), as claimed: when an
\* invocation without --dry-run has ended with status 0 and the files, which
\* only grow and keep their identity, have not changed since it started,
\* every complete matching line of every file is stored exactly once.
C27_NoPartialLoss ==
    \A r \in Runs :
        (/\ pc[r] = "done" /\ exit[r] = "0"
         /\ ~args[r].dry_run /\ snap[r].fsOps = fsOps)
        => \A p \in Paths : fs[p].kind = "file" => AllStored(p)

\* C28 (dedup key independent of path), as claimed: when a file that was
\* read to its end under one name is found under another name of the
\* pattern with the same inode and the same bytes, the scan starts at 0,
\* every key it computes is stored already and the insert adds no event.
C28_RenameNoInsert ==
    \A r \in Runs :
        (/\ pc[r] = "save"
         /\ loc[r].state = NoRow
         /\ \E q \in Paths \ {CurFile(r)} :
               /\ fs[q].kind = "none"
               /\ parser_state[<<args[r].parser_name, q>>] =
                     [inode |-> loc[r].inode,
                      offset |-> Len(fs[CurFile(r)].data)])
        => /\ loc[r].start_offset = 0
           /\ Hashes(loc[r].rows) \subseteq Hashes(events)
           /\ loc[r].inserted = 0

====
